---- MODULE Spec2Model ----
(***************************************************************************)
(* The replay session engine of airpilot: PilotService (two revisions of   *)
(* it are in the repository) driven from the socket gateway, on Node's     *)
(* single-threaded event loop.                                             *)
(*                                                                         *)
(*   impl = "A"  src/unnamed/part_001 (keeps lastOnTick, loads by id)      *)
(*   impl = "B"  src/backend/src/pilot/pilot.service.ts with               *)
(*               pilot.repository.ts                                       *)
(*                                                                         *)
(* An async method runs synchronously up to its first await.  Every await  *)
(* puts the continuation at the back of the microtask queue (`queue`) when *)
(* the awaited promise settles.  Tasks of the event loop (a batch of       *)
(* socket messages, a store reply, a timer) start only when the microtask  *)
(* queue is empty.                                                         *)
(***************************************************************************)
EXTENDS Integers, Sequences, FiniteSets, TLC

\* ---------------------------------------------------------------- bounds
MaxOps == 2        \* operations in flight at once
MaxBatch == 2      \* operations invoked from one event-loop task
MaxCmds == 3       \* operations invoked in one run
MaxDelta == 3      \* largest small seek argument tried on a prepared session

\* ------------------------------------------------------ program constants
MinRate == 1       \* Math.max(0.1, rate); rates are counted in tenths
DefaultRate == 10  \* rate: 1
MinDelay == 10     \* Math.max(10, ...)

Keys == {1}
OpIds == 1..MaxOps
\* timestamps (ms) in the order the store returns the rows
DataSets == {<< >>, <<0, 1000, 1000>>}
SeekSecs == {-1, 2}
SeekPts == {-1, 2}
\* a JavaScript value in a number position: a finite number, NaN, +Infinity,
\* -Infinity, null or undefined (a field missing from the message)
Fin(v) == [t |-> "fin", v |-> v]
NaN == [t |-> "nan", v |-> 0]
PosInf == [t |-> "inf", v |-> 0]
NegInf == [t |-> "ninf", v |-> 0]
Null == [t |-> "null", v |-> 0]
Undefined == [t |-> "undef", v |-> 0]
\* rates are counted in tenths
RateArgs == {Fin(0), Fin(20)}
Kinds == {"snapshot", "resume", "pause", "setRate", "seekSeconds", "seekPoints"}

VARIABLES
  impl,      \* which revision of PilotService runs
  store,     \* the telemetry store: key -> the rows the exact-match query
             \* finds and the rows only the loose (fallback) query finds
  sessions,  \* PilotService.sessions: key -> session object (0: none)
  heap,      \* the session objects, by identity
  timers,    \* per session object, the live setTimeout handles
  ops,       \* the async calls in flight
  queue,     \* the microtask queue (ids of calls whose continuation is ready)
  batch,     \* calls invoked so far in the running synchronous section
  cmds,      \* calls invoked so far
  ev,        \* what the last step handed to a tick callback
  loads,     \* history: successful store loads per key
  quiet,     \* history: a pause(key) completed and no resume(key) was issued
             \* after that pause was
  hist       \* history per session object

vars == <<impl, store, sessions, heap, timers, ops, queue, batch, cmds, ev, loads, quiet, hist>>

NoSession == 0
\* hr (history): a resume of the same key was issued after this call was
NoOp ==
  [kind |-> "none", k |-> 0, arg |-> 0, cb |-> "none", pc |-> "idle", s |-> 0, s2 |-> 0,
   hr |-> FALSE]
NoSnapshot ==
  [key |-> 0, idx |-> 0, total |-> 0, playing |-> FALSE, rate |-> Fin(0), point |-> Null]
NoEvent ==
  [type |-> "none", sid |-> 0, k |-> 0, idx |-> 0, cb |-> "none", defined |-> FALSE,
   cur |-> FALSE, stale |-> FALSE, prev |-> -1, pz |-> -1, rc |-> FALSE, rs |-> -1,
   delay |-> Fin(0), rate |-> Fin(0), lr |-> Fin(0), sk |-> -1, sd |-> Fin(0),
   snap |-> NoSnapshot]
\* last: index of the last delivery since the last seek (-1: none)
\* run:  the session has not been paused or stopped since that delivery
\* pz:   cursor at the last pause call, while no seek or delivery followed it
\* rc:   setRate re-armed the session and nothing was delivered since
\* rs:   cursor when a resume call last set the session playing, while no
\*       delivery, pause or seek followed
\* n:    deliveries since a resume call last set the session playing
\* lr:   s.rate at the last delivery
\* pp:   pause calls in a row (counted up to 2), nothing else having touched
\*       the session between them
\* sk:   cursor a seek left while a timer was pending, that timer still being
\*       the pending one (-1: none)
\* sd:   the delay of that timer
NoHist ==
  [last |-> -1, run |-> FALSE, pz |-> -1, rc |-> FALSE, rs |-> -1, n |-> 0,
   lr |-> Fin(0), pp |-> 0, sk |-> -1, sd |-> Fin(0)]

Max(a, b) == IF a >= b THEN a ELSE b
Min(a, b) == IF a <= b THEN a ELSE b
RemoveAt(sq, i) == [j \in 1..(Len(sq) - 1) |-> IF j < i THEN sq[j] ELSE sq[j + 1]]

\* --------------------------------------------------------------- the store
RECURSIVE InsertByTs(_, _)
InsertByTs(sorted, t) ==
  IF sorted = << >> THEN <<t>>
  ELSE IF t < Head(sorted) THEN <<t>> \o sorted
  ELSE <<Head(sorted)>> \o InsertByTs(Tail(sorted), t)

RECURSIVE SortByTs(_)
SortByTs(rows) ==
  IF rows = << >> THEN << >>
  ELSE InsertByTs(SortByTs(SubSeq(rows, 1, Len(rows) - 1)), rows[Len(rows)])

\* a flight whose rows are all found by the exact-match query
Stored(rows) == [exact |-> rows, loose |-> << >>]

\* rows are held in id order.  Revision A asks for id order, and when the
\* exact match finds nothing runs the loose query, again in id order;
\* revision B asks for utcTime order and has no second query.
LoadFlight(im, st) ==
  IF im = "B" THEN SortByTs(st.exact)
  ELSE IF Len(st.exact) # 0 THEN st.exact ELSE st.loose

\* ------------------------------------------------------------- the session
\* faulty variant: a session is created playing
NewSessionPlaying(k, data) ==
  [key |-> k, data |-> data, idx |-> 0, playing |-> TRUE, rate |-> Fin(DefaultRate),
   lastOnTick |-> "undefined"]

\* const s: Session = { key, data, idx: 0, playing: false, rate: 1 }
NewSession(k, data) ==
  [key |-> k, data |-> data, idx |-> 0, playing |-> FALSE, rate |-> Fin(DefaultRate),
   lastOnTick |-> "undefined"]

\* data[i] of the code, i counted from 0
Has(data, i) == i >= 0 /\ i < Len(data)
TsAt(data, i) == data[i + 1]

\* faulty variant: the quotient is rounded to nearest
FloorDivRound(gap, rate) ==
  CASE rate.t = "fin" -> Fin((2 * gap * 10 + rate.v) \div (2 * rate.v))
    [] rate.t = "nan" -> NaN
    [] OTHER -> Fin(0)

\* Math.floor(gap / rate): NaN for a NaN rate, (+/-)0 for an infinite one
FloorDiv(gap, rate) ==
  CASE rate.t = "fin" -> Fin((gap * 10) \div rate.v)
    [] rate.t = "nan" -> NaN
    [] OTHER -> Fin(0)

\* Math.max(10, x): NaN when x is NaN
MaxWithMinDelay(x) == IF x.t = "nan" THEN NaN ELSE Fin(Max(MinDelay, x.v))

\* delay = next ? Math.max(10, Math.floor((next.ts - cur.ts) / s.rate)) : 0
Delay(s) ==
  IF Has(s.data, s.idx + 1)
    THEN MaxWithMinDelay(FloorDiv(TsAt(s.data, s.idx + 1) - TsAt(s.data, s.idx), s.rate))
    ELSE Fin(0)

\* faulty variant: the timer is never cancelled
ClearTimeoutNone(tl) == tl

\* clearTimeout(s.timer): only the handle s.timer holds is cancelled
ClearTimeout(tl) == SelectSeq(tl, LAMBDA t : ~t.cur)

\* s.timer = setTimeout(cb, delay): s.timer now holds the new handle
SetTimer(tl, cb, delay) ==
  [j \in 1..(Len(tl) + 1) |->
     IF j <= Len(tl) THEN [tl[j] EXCEPT !.cur = FALSE]
     ELSE [cb |-> cb, delay |-> delay, cur |-> TRUE, stale |-> FALSE]]

ScheduleNext(s, tl, cb) == IF ~s.playing THEN tl ELSE SetTimer(tl, cb, Delay(s))

\* faulty variant: the end test is off by one
AtEndStrict(s) == s.idx > Len(s.data)

\* if (s.idx >= s.data.length)
AtEnd(s) == s.idx >= Len(s.data)

\* faulty variant: the cursor is not advanced
NextIdxSame(s) == s

\* s.idx++
NextIdx(s) == [s EXCEPT !.idx = s.idx + 1]

\* faulty variant: the timer callback never clears s.playing
AfterTickKeepsPlaying(s) == NextIdx(s)

\* faulty variant: the timer callback always stops the session
AfterTickStops(s) == [NextIdx(s) EXCEPT !.playing = FALSE]

\* the timer callback after onTick returned: s.idx++, stop at the end
AfterTick(s) ==
  IF AtEnd(NextIdx(s)) THEN [NextIdx(s) EXCEPT !.playing = FALSE] ELSE NextIdx(s)

\* faulty variant: resume never returns early
ResumeReturnsEarlyNever(s) == FALSE

\* faulty variant: resume does not test for an empty session
ResumeReturnsEarlyPlayingOnly(s) == s.playing

\* faulty variant: resume does not test s.playing
ResumeReturnsEarlyEmptyOnly(s) == Len(s.data) = 0

\* if (s.playing || !s.data.length) return
ResumeReturnsEarly(s) == s.playing \/ Len(s.data) = 0

\* faulty variant: resume restarts from the first sample
ResumeSessionRestart(s) == [s EXCEPT !.playing = TRUE, !.idx = 0]

\* resume past its early return
ResumeSession(s) == [s EXCEPT !.playing = TRUE]

\* faulty variant: pause rewinds the cursor
PauseSessionRewinds(s) == [s EXCEPT !.playing = FALSE, !.idx = 0]

\* faulty variant: pause leaves the flag set
PauseSessionKeepsFlag(s) == s

\* pause on the session
PauseSession(s) == [s EXCEPT !.playing = FALSE]

\* ToNumber of an argument: undefined is NaN, null is 0
ToNumber(x) ==
  CASE x.t = "undef" -> NaN
    [] x.t = "null" -> Fin(0)
    [] OTHER -> x

\* Math.max(0.1, rate): NaN stays NaN, +Infinity stays +Infinity
ClampRate(r) ==
  LET x == ToNumber(r)
  IN CASE x.t = "nan" -> NaN
       [] x.t = "inf" -> PosInf
       [] x.t = "ninf" -> Fin(MinRate)
       [] OTHER -> Fin(Max(MinRate, x.v))

\* faulty variant: the search compares with < instead of <=
RECURSIVE BSearchStrict(_, _, _, _, _)
BSearchStrict(data, target, lo, hi, ans) ==
  IF lo > hi THEN ans
  ELSE LET mid == (lo + hi) \div 2
       IN IF TsAt(data, mid) < target
            THEN BSearchStrict(data, target, mid + 1, hi, mid)
            ELSE BSearchStrict(data, target, lo, mid - 1, ans)

\* the binary search of seekSeconds: while (lo <= hi) { mid = (lo + hi) >> 1; ... }
RECURSIVE BSearch(_, _, _, _, _)
BSearch(data, target, lo, hi, ans) ==
  IF lo > hi THEN ans
  ELSE LET mid == (lo + hi) \div 2
       IN IF TsAt(data, mid) <= target
            THEN BSearch(data, target, mid + 1, hi, mid)
            ELSE BSearch(data, target, lo, mid - 1, ans)

\* faulty variant: the target is always counted from the first sample
SeekSecondsIdxFromFirst(s, seconds) ==
  BSearch(s.data, TsAt(s.data, 0) + seconds * 1000, 0, Len(s.data) - 1, 0)

\* target = (s.data[s.idx]?.ts ?? s.data[0].ts) + seconds * 1000, then the search
SeekSecondsIdx(s, seconds) ==
  LET base == IF Has(s.data, s.idx) THEN TsAt(s.data, s.idx) ELSE TsAt(s.data, 0)
  IN BSearch(s.data, base + seconds * 1000, 0, Len(s.data) - 1, 0)

\* faulty variant: no lower limit
SeekPointsIdxNoFloor(s, delta) == Min(Len(s.data) - 1, s.idx + delta)

\* Math.max(0, Math.min(s.data.length - 1, s.idx + delta))
SeekPointsIdx(s, delta) == Max(0, Min(Len(s.data) - 1, s.idx + delta))

\* ------------------------------------------------------------------- Init
Init ==
  /\ impl \in {"A", "B"}
  /\ store \in [Keys -> {Stored(d) : d \in DataSets}]
  /\ sessions = [k \in Keys |-> NoSession]
  /\ heap = << >>
  /\ timers = << >>
  /\ ops = [o \in OpIds |-> NoOp]
  /\ queue = << >>
  /\ batch = 0
  /\ cmds = 0
  /\ ev = NoEvent
  /\ loads = [k \in Keys |-> 0]
  /\ quiet = [k \in Keys |-> FALSE]
  /\ hist = << >>

\* ------------------------------------------------- calls and continuations
ArgsOf(kind) ==
  CASE kind = "seekSeconds" -> SeekSecs
    [] kind = "seekPoints" -> SeekPts
    [] kind = "setRate" -> RateArgs
    [] OTHER -> {0}

Free == {o \in OpIds : ops[o].pc = "idle"}

\* faulty variant: the registry is not consulted, every call loads
EnsureSessionCallAlwaysLoads(kind, k, arg) ==
  [kind |-> kind, k |-> k, arg |-> arg,
   cb |-> IF kind = "resume" THEN "emit" ELSE "none",
   pc |-> "load", s |-> sessions[k], s2 |-> 0, hr |-> FALSE]

\* ensureSession up to its first await: the session there is, or a store load
EnsureSessionCall(kind, k, arg) ==
  [kind |-> kind, k |-> k, arg |-> arg,
   cb |-> IF kind = "resume" THEN "emit" ELSE "none",
   pc |-> IF sessions[k] # NoSession THEN "body" ELSE "load",
   s |-> sessions[k], s2 |-> 0, hr |-> FALSE]

\* the gateway calls a service method for a socket message
Invoke(kind, k, arg) ==
  /\ batch < MaxBatch
  /\ batch > 0 \/ queue = << >>
  /\ Free # {}
  /\ cmds < MaxCmds
  /\ LET o == CHOOSE x \in Free : \A y \in Free : x <= y
     IN /\ ops' = [x \in OpIds |->
                     IF x = o THEN EnsureSessionCall(kind, k, arg)
                     ELSE IF kind = "resume" /\ ops[x].k = k THEN [ops[x] EXCEPT !.hr = TRUE]
                     ELSE ops[x]]
        /\ queue' = IF sessions[k] # NoSession THEN Append(queue, o) ELSE queue
  /\ batch' = batch + 1
  /\ cmds' = cmds + 1
  /\ quiet' = IF kind = "resume" THEN [quiet EXCEPT ![k] = FALSE] ELSE quiet
  /\ ev' = NoEvent
  /\ UNCHANGED <<impl, store, sessions, heap, timers, loads, hist>>

\* the store answers: ensureSession's continuation becomes ready
LoadDone(o) ==
  /\ queue = << >>
  /\ ops[o].pc = "load"
  /\ ops' = [ops EXCEPT ![o].pc = "ensure2"]
  /\ queue' = <<o>>
  /\ loads' = [loads EXCEPT ![ops[o].k] = @ + 1]
  /\ batch' = 0
  /\ ev' = NoEvent
  /\ UNCHANGED <<impl, cmds, store, sessions, heap, timers, quiet, hist>>

\* faulty variant: the failure of the store is swallowed
RejectEventSilent(k) == NoEvent

\* the promise the service method returned rejects with the store's error
RejectEvent(k) == [NoEvent EXCEPT !.type = "reject", !.k = k]

\* the store fails: the call rejects, nothing is registered
LoadFail(o) ==
  /\ queue = << >>
  /\ ops[o].pc = "load"
  /\ ops' = [ops EXCEPT ![o] = NoOp]
  /\ batch' = 0
  /\ ev' = RejectEvent(ops[o].k)
  /\ UNCHANGED <<impl, cmds, store, sessions, heap, timers, queue, loads, quiet, hist>>

Ready(o, pc, kinds) ==
  /\ queue # << >>
  /\ o = Head(queue)
  /\ ops[o].pc = pc
  /\ ops[o].kind \in kinds

Finish(o) ==
  /\ ops' = [ops EXCEPT ![o] = NoOp]
  /\ queue' = Tail(queue)

Hop(o, pc, s2) ==
  /\ ops' = [ops EXCEPT ![o].pc = pc, ![o].s2 = s2]
  /\ queue' = Append(Tail(queue), o)

\* ensureSession after `await this.loadFlight(k)`: construct, register, return
EnsureSessionCont(o) ==
  /\ Ready(o, "ensure2", Kinds)
  /\ heap' = Append(heap, NewSession(ops[o].k, LoadFlight(impl, store[ops[o].k])))
  /\ timers' = Append(timers, << >>)
  /\ hist' = Append(hist, NoHist)
  /\ sessions' = [sessions EXCEPT ![ops[o].k] = Len(heap) + 1]
  /\ ops' = [ops EXCEPT ![o].pc = "body", ![o].s = Len(heap) + 1]
  /\ queue' = Append(Tail(queue), o)
  /\ batch' = 0
  /\ ev' = NoEvent
  /\ UNCHANGED <<impl, cmds, store, loads, quiet>>

\* what snapshot returns; point: s.data[s.idx] ?? null
SnapshotOf(s) ==
  [key |-> s.key, idx |-> s.idx, total |-> Len(s.data), playing |-> s.playing,
   rate |-> s.rate,
   point |-> IF Has(s.data, s.idx) THEN Fin(TsAt(s.data, s.idx)) ELSE Null]

\* the value a snapshot call resolves with, read from session sid
SnapshotEvent(sid) ==
  [NoEvent EXCEPT !.type = "snapshot", !.sid = sid, !.k = heap[sid].key,
                  !.snap = SnapshotOf(heap[sid])]

\* snapshot: a read of the session
Snapshot(o) ==
  /\ Ready(o, "body", {"snapshot"})
  /\ Finish(o)
  /\ batch' = 0
  /\ ev' = SnapshotEvent(ops[o].s)
  /\ UNCHANGED <<impl, cmds, store, sessions, heap, timers, loads, quiet, hist>>

\* the body of resume(k, onTick) on session sid
ResumeOn(sid, cb, byRate) ==
  LET s0 == heap[sid]
      s1 == IF impl = "A" THEN [s0 EXCEPT !.lastOnTick = cb] ELSE s0
  IN IF ResumeReturnsEarly(s1)
       THEN /\ heap' = [heap EXCEPT ![sid] = s1]
            /\ UNCHANGED <<timers, hist>>
       ELSE /\ heap' = [heap EXCEPT ![sid] = ResumeSession(s1)]
            /\ timers' = [timers EXCEPT ![sid] = ScheduleNext(ResumeSession(s1), @, cb)]
            /\ hist' = [hist EXCEPT ![sid].rc = byRate,
                                    ![sid].rs = IF byRate THEN @ ELSE ResumeSession(s1).idx,
                                    ![sid].n = IF byRate THEN @ ELSE 0,
                                    ![sid].pp = 0, ![sid].sk = -1, ![sid].sd = Fin(0)]

\* faulty variant: pause stops every session of the service
PauseOnAll(sid) ==
  /\ heap' = [x \in DOMAIN heap |-> PauseSession(heap[x])]
  /\ timers' = [x \in DOMAIN timers |-> ClearTimeout(timers[x])]

\* the body of pause(k) on session sid
PauseOn(sid) ==
  /\ heap' = [heap EXCEPT ![sid] = PauseSession(@)]
  /\ timers' = [timers EXCEPT ![sid] = ClearTimeout(@)]

\* history: resume found the session playing and returned
ResumeNoopEvent(sid) ==
  IF heap[sid].playing
    THEN [NoEvent EXCEPT !.type = "resumeNoop", !.sid = sid, !.k = heap[sid].key]
    ELSE NoEvent

Resume(o) ==
  /\ Ready(o, "body", {"resume"})
  /\ ResumeOn(ops[o].s, ops[o].cb, FALSE)
  /\ Finish(o)
  /\ batch' = 0
  /\ ev' = ResumeNoopEvent(ops[o].s)
  /\ UNCHANGED <<impl, cmds, store, sessions, loads, quiet>>

Pause(o) ==
  /\ Ready(o, "body", {"pause"})
  /\ PauseOn(ops[o].s)
  /\ hist' = [hist EXCEPT ![ops[o].s].run = FALSE, ![ops[o].s].pz = heap[ops[o].s].idx,
                          ![ops[o].s].rc = FALSE, ![ops[o].s].rs = -1,
                          ![ops[o].s].pp = Min(2, @ + 1),
                          ![ops[o].s].sk = -1, ![ops[o].s].sd = Fin(0)]
  /\ quiet' = [quiet EXCEPT ![ops[o].k] = ~ops[o].hr]
  /\ Finish(o)
  /\ batch' = 0
  /\ ev' = NoEvent
  /\ UNCHANGED <<impl, cmds, store, sessions, loads>>

\* faulty variant: setRate re-arms whatever the session's state
SetRateRearmsAlways(s) == TRUE

\* if (s.playing) { await this.pause(k); ...resume... }
SetRateRearms(s) == s.playing

\* faulty variant: setRate always re-arms with an empty callback
SetRateCallbackNoop(im, s) == "noop"

\* the callback setRate hands to resume: s.lastOnTick in revision A, () => {}
\* in revision B
SetRateCallback(im, s) == IF im = "A" THEN s.lastOnTick ELSE "noop"

\* history: the timers pending when setRate finds the session playing
MarkStale(tl) == [j \in 1..Len(tl) |-> [tl[j] EXCEPT !.stale = TRUE]]

\* setRate: store the rate; on a playing session call this.pause(k)
SetRate(o) ==
  /\ Ready(o, "body", {"setRate"})
  /\ heap' = [heap EXCEPT ![ops[o].s].rate = ClampRate(ops[o].arg)]
  /\ IF SetRateRearms(heap[ops[o].s])
       THEN /\ Hop(o, "sr_pause", sessions[ops[o].k])
            /\ timers' = [timers EXCEPT ![ops[o].s] = MarkStale(@)]
       ELSE /\ Finish(o)
            /\ UNCHANGED timers
  /\ hist' = [hist EXCEPT ![ops[o].s].pp = 0]
  /\ batch' = 0
  /\ ev' = NoEvent
  /\ UNCHANGED <<impl, cmds, store, sessions, loads, quiet>>

\* the pause(k) setRate awaits
SetRatePause(o) ==
  /\ Ready(o, "sr_pause", {"setRate"})
  /\ PauseOn(ops[o].s2)
  /\ Hop(o, "sr_mid", 0)
  /\ batch' = 0
  /\ ev' = NoEvent
  /\ UNCHANGED <<impl, cmds, store, sessions, loads, quiet, hist>>

\* setRate after `await this.pause(k)`: call this.resume(k, ...)
SetRateMid(o) ==
  /\ Ready(o, "sr_mid", {"setRate"})
  /\ IF impl = "A" /\ heap[ops[o].s].lastOnTick = "undefined"
       THEN Finish(o)
       ELSE /\ ops' = [ops EXCEPT ![o].pc = "sr_resume", ![o].s2 = sessions[ops[o].k],
                                  ![o].cb = SetRateCallback(impl, heap[ops[o].s])]
            /\ queue' = Append(Tail(queue), o)
  /\ batch' = 0
  /\ ev' = NoEvent
  /\ UNCHANGED <<impl, cmds, store, sessions, heap, timers, loads, quiet, hist>>

\* the resume(k, ...) setRate awaits
SetRateResume(o) ==
  /\ Ready(o, "sr_resume", {"setRate"})
  /\ ResumeOn(ops[o].s2, ops[o].cb, TRUE)
  /\ Hop(o, "sr_ret", 0)
  /\ batch' = 0
  /\ ev' = NoEvent
  /\ UNCHANGED <<impl, cmds, store, sessions, loads, quiet>>

\* setRate returns { rate: s.rate }
SetRateRet(o) ==
  /\ Ready(o, "sr_ret", {"setRate"})
  /\ Finish(o)
  /\ batch' = 0
  /\ ev' = NoEvent
  /\ UNCHANGED <<impl, cmds, store, sessions, heap, timers, loads, quiet, hist>>

SeekHist(sid) ==
  hist' = [hist EXCEPT ![sid] =
             IF heap[sid].playing /\ Len(timers[sid]) = 1
               THEN [NoHist EXCEPT !.sk = heap'[sid].idx, !.sd = timers[sid][1].delay]
               ELSE NoHist]

\* faulty variant: a seek also stops the session
SeekSessionStops(s, i) == [s EXCEPT !.idx = i, !.playing = FALSE]

\* s.idx = ...: the one assignment a seek makes
SeekSession(s, i) == [s EXCEPT !.idx = i]

\* seekSeconds: binary search, then `return this.snapshot(k)`
SeekSeconds(o) ==
  /\ Ready(o, "body", {"seekSeconds"})
  /\ IF Len(heap[ops[o].s].data) = 0
       THEN UNCHANGED <<heap, hist>>
       ELSE /\ heap' = [heap EXCEPT ![ops[o].s] =
                                  SeekSession(@, SeekSecondsIdx(heap[ops[o].s], ops[o].arg))]
            /\ SeekHist(ops[o].s)
  /\ Hop(o, "snap", sessions[ops[o].k])
  /\ batch' = 0
  /\ ev' = NoEvent
  /\ UNCHANGED <<impl, cmds, store, sessions, timers, loads, quiet>>

\* seekPoints: clamp, then `return this.snapshot(k)`
SeekPoints(o) ==
  /\ Ready(o, "body", {"seekPoints"})
  /\ heap' = [heap EXCEPT ![ops[o].s] =
                     SeekSession(@, SeekPointsIdx(heap[ops[o].s], ops[o].arg))]
  /\ SeekHist(ops[o].s)
  /\ Hop(o, "snap", sessions[ops[o].k])
  /\ batch' = 0
  /\ ev' = NoEvent
  /\ UNCHANGED <<impl, cmds, store, sessions, timers, loads, quiet>>

\* the snapshot a seek returns
SeekSnapshot(o) ==
  /\ Ready(o, "snap", {"seekSeconds", "seekPoints"})
  /\ Finish(o)
  /\ batch' = 0
  /\ ev' = SnapshotEvent(ops[o].s2)
  /\ UNCHANGED <<impl, cmds, store, sessions, heap, timers, loads, quiet, hist>>

\* ------------------------------------------------------------- the timer
Tick(sid, s, t, h) ==
  [type |-> "tick", sid |-> sid, k |-> s.key, idx |-> s.idx, cb |-> t.cb,
   defined |-> Has(s.data, s.idx), cur |-> t.cur, stale |-> t.stale,
   prev |-> IF h.run THEN h.last ELSE -1, pz |-> h.pz, rc |-> h.rc, rs |-> h.rs,
   delay |-> t.delay, rate |-> s.rate, lr |-> h.lr, sk |-> h.sk, sd |-> h.sd,
   snap |-> NoSnapshot]

\* a setTimeout handle of session sid fires and its callback runs
TimerFire(sid, i) ==
  /\ queue = << >>
  /\ i \in DOMAIN timers[sid]
  /\ LET s == heap[sid]
         t == timers[sid][i]
         rest == RemoveAt(timers[sid], i)
     IN IF ~s.playing
          THEN /\ timers' = [timers EXCEPT ![sid] = rest]
               /\ ev' = NoEvent
               /\ UNCHANGED <<heap, hist>>
          ELSE /\ heap' = [heap EXCEPT ![sid] = AfterTick(s)]
               /\ timers' = [timers EXCEPT ![sid] =
                               IF AtEnd(NextIdx(s)) THEN rest
                               ELSE ScheduleNext(AfterTick(s), rest, t.cb)]
               /\ ev' = Tick(sid, s, t, hist[sid])
               /\ hist' = [hist EXCEPT ![sid] =
                             [last |-> s.idx, run |-> AfterTick(s).playing, pz |-> -1,
                              rc |-> FALSE, rs |-> -1, n |-> hist[sid].n + 1,
                              lr |-> s.rate, pp |-> 0, sk |-> -1, sd |-> Fin(0)]]
  /\ batch' = 0
  /\ UNCHANGED <<impl, cmds, store, sessions, ops, queue, loads, quiet>>

\* the same, with an onTick that throws: the callback ends at the throw
TimerFireThrow(sid, i) ==
  /\ queue = << >>
  /\ i \in DOMAIN timers[sid]
  /\ heap[sid].playing
  /\ timers' = [timers EXCEPT ![sid] = RemoveAt(@, i)]
  /\ ev' = [Tick(sid, heap[sid], timers[sid][i], hist[sid]) EXCEPT !.type = "throw"]
  /\ batch' = 0
  /\ UNCHANGED <<impl, cmds, store, sessions, heap, ops, queue, loads, quiet, hist>>

Next ==
  \/ \E kind \in Kinds, k \in Keys : \E arg \in ArgsOf(kind) : Invoke(kind, k, arg)
  \/ \E o \in OpIds : LoadDone(o)
  \/ \E o \in OpIds : LoadFail(o)
  \/ \E o \in OpIds : EnsureSessionCont(o)
  \/ \E o \in OpIds : Snapshot(o)
  \/ \E o \in OpIds : Resume(o)
  \/ \E o \in OpIds : Pause(o)
  \/ \E o \in OpIds : SetRate(o)
  \/ \E o \in OpIds : SetRatePause(o)
  \/ \E o \in OpIds : SetRateMid(o)
  \/ \E o \in OpIds : SetRateResume(o)
  \/ \E o \in OpIds : SetRateRet(o)
  \/ \E o \in OpIds : SeekSeconds(o)
  \/ \E o \in OpIds : SeekPoints(o)
  \/ \E o \in OpIds : SeekSnapshot(o)
  \/ \E sid \in DOMAIN heap : \E i \in DOMAIN timers[sid] : TimerFire(sid, i)

Spec == Init /\ [][Next]_vars

\* the engine driven with a tick callback that may throw
NextThrow ==
  \/ Next
  \/ \E sid \in DOMAIN heap : \E i \in DOMAIN timers[sid] : TimerFireThrow(sid, i)

SpecThrow == Init /\ [][NextThrow]_vars

\* ------------------------------------------- one call on a prepared session
\* The methods taken one call at a time: a session already registered, in a
\* state the engine leaves sessions in (idle or playing, cursor anywhere up to
\* the length), and one call of any kind, with any argument, about to run.

\* rows as the store holds them, in id order
UnitData == {<< >>, <<0, 1000>>, <<1000, 0>>, <<0, 1000, 1000>>, <<0, 1000, 2000, 5000>>}
\* rates in tenths: 0.1, 0.5, 0.7, 1, 1.5, 2, 1000
UnitRates == {Fin(1), Fin(5), Fin(7), Fin(10), Fin(15), Fin(20), Fin(10000)}
\* the rate field of a player:setRate message
RateInputs ==
  {Undefined, Null, NaN, PosInf, NegInf, Fin(-5), Fin(0), Fin(1), Fin(5), Fin(15), Fin(10000)}
\* the seconds / points field of a seek message
SeekInputs == (-MaxDelta..MaxDelta) \cup {-100, 100}

UnitKey == CHOOSE k \in Keys : \A j \in Keys : k <= j

UnitArgsOf(kind) ==
  CASE kind \in {"seekSeconds", "seekPoints"} -> SeekInputs
    [] kind = "setRate" -> RateInputs
    [] OTHER -> {0}

UnitCalls ==
  UNION {{[kind |-> kind, k |-> UnitKey, arg |-> a,
           cb |-> IF kind = "resume" THEN "emit" ELSE "none",
           pc |-> "body", s |-> 1, s2 |-> 0, hr |-> FALSE] : a \in UnitArgsOf(kind)} :
         kind \in Kinds}

UnitSessions(im, st) ==
  LET data == LoadFlight(im, st)
  IN {[key |-> UnitKey, data |-> data, idx |-> i, playing |-> p, rate |-> r,
       lastOnTick |-> IF im = "A" /\ p THEN "emit" ELSE "undefined"] :
        i \in 0..Len(data), p \in {q \in BOOLEAN : q => Len(data) > 0}, r \in UnitRates}

InitUnit ==
  /\ impl \in {"A", "B"}
  /\ store \in [Keys -> {Stored(d) : d \in UnitData}]
  /\ sessions = [k \in Keys |-> 1]
  /\ heap \in {<<s>> : s \in UnitSessions(impl, store[UnitKey])}
  /\ timers = <<ScheduleNext(heap[1], << >>, "emit")>>
  /\ ops \in {[o \in OpIds |-> IF o = 1 THEN c ELSE NoOp] : c \in UnitCalls}
  /\ queue = <<1>>
  /\ batch = 0
  /\ cmds = 1
  /\ ev = NoEvent
  /\ loads = [k \in Keys |-> 1]
  /\ quiet = [k \in Keys |-> FALSE]
  /\ hist = <<NoHist>>

NextUnit ==
  \/ \E o \in OpIds : Snapshot(o)
  \/ \E o \in OpIds : Resume(o)
  \/ \E o \in OpIds : Pause(o)
  \/ \E o \in OpIds : SetRate(o)
  \/ \E o \in OpIds : SetRatePause(o)
  \/ \E o \in OpIds : SetRateMid(o)
  \/ \E o \in OpIds : SetRateResume(o)
  \/ \E o \in OpIds : SetRateRet(o)
  \/ \E o \in OpIds : SeekSeconds(o)
  \/ \E o \in OpIds : SeekPoints(o)
  \/ \E o \in OpIds : SeekSnapshot(o)
  \/ \E sid \in DOMAIN heap : \E i \in DOMAIN timers[sid] : TimerFire(sid, i)

SpecUnit == InitUnit /\ [][NextUnit]_vars

\* ------------------------------------------------------------------ claims

Sids == DOMAIN heap

\* C1: for every key, a successful store load is performed at most once, also
\* when operations are issued while the first load is still awaiting the store.
C1_SingleLoad == \A k \in Keys : loads[k] <= 1

\* C2: once pause(key) has completed the tick callback is not invoked for that
\* key until a later resume(key) is issued.
C2_NoGhostDelivery == ev.type = "tick" => ~quiet[ev.k]

\* C3: every session object has at most one live timer.
C3_AtMostOneTimer == \A sid \in Sids : Len(timers[sid]) <= 1

\* a session re-armed by setRate holds its one timer
C3_Witness == \E sid \in Sids : hist[sid].rc /\ Len(timers[sid]) = 1

\* C4: the cursor stays inside [0, len) on a non-empty session and is 0 on an
\* empty one.
C4_CursorInBounds ==
  \A sid \in Sids :
    IF Len(heap[sid].data) = 0 THEN heap[sid].idx = 0
    ELSE 0 <= heap[sid].idx /\ heap[sid].idx < Len(heap[sid].data)

C6_MonotonicDelivery ==
  (ev.type = "tick" /\ ev.prev # -1) => ev.idx = ev.prev + 1

\* a second delivery in one run
C6_Witness == ev.type = "tick" /\ ev.prev # -1 /\ hist[ev.sid].n >= 2

\* C7: after a pause and a resume of a session object with no seek in between,
\* its first delivery is at the cursor it held at the pause, and that cursor
\* follows the last delivery it made: nothing skipped, nothing repeated.
C7_PauseResumeKeepsCursor ==
  /\ (ev.type = "tick" /\ ev.pz # -1) => ev.idx = ev.pz
  /\ \A sid \in Sids :
       (hist[sid].pz # -1 /\ hist[sid].last # -1) => hist[sid].pz = hist[sid].last + 1

\* a delivery after a pause that interrupted a run
C7_Witness == ev.type = "tick" /\ ev.pz > 0 /\ ev.defined

\* C8: a session set playing at its last index delivers the last sample once
\* and is then stopped with no timer.
C8_EndOfDataStop ==
  (ev.type = "tick" /\ ev.rs = Len(heap[ev.sid].data) - 1) =>
     /\ ev.idx = Len(heap[ev.sid].data) - 1
     /\ ev.defined
     /\ ~heap[ev.sid].playing
     /\ timers[ev.sid] = << >>
     /\ hist[ev.sid].n = 1

\* the delivery that follows a resume at the last index
C8_Witness == ev.type = "tick" /\ ev.rs = Len(heap[ev.sid].data) - 1 /\ ev.rs > 0

\* C9: when the tick callback throws, the cursor is still incremented and the
\* next advance is scheduled, or the session stops at the end.
C9_ThrowStillAdvances ==
  ev.type = "throw" =>
    /\ heap[ev.sid].idx = ev.idx + 1
    /\ Len(timers[ev.sid]) = (IF heap[ev.sid].playing THEN 1 ELSE 0)

\* C10: setRate on a playing session cancels the timer that was pending; no
\* delivery comes from that timer, and the delivery after the rate change is
\* the sample after the one delivered before, not that one again.
C10_RateChangeNoDouble ==
  /\ \A sid \in Sids :
       (\E j \in DOMAIN timers[sid] : timers[sid][j].stale) =>
          \E o \in OpIds : ops[o].pc = "sr_pause" /\ ops[o].s = sid
  /\ ev.type = "tick" => ~ev.stale
  /\ (ev.type = "tick" /\ ev.rc /\ ev.prev # -1) => ev.idx = ev.prev + 1

\* a delivery in the middle of a run, after a rate change
C10_Witness == ev.type = "tick" /\ ev.rc /\ ev.prev # -1

\* ------------------------------------------ the engine over unordered rows
\* The whole engine again, over flights whose rows were inserted out of
\* time-of-day order, found by the exact match or only by the loose query.

\* the rows of a flight, in id order: the later sample was inserted first
LateFirst == <<1000, 0>>
LoadStores == {[exact |-> e, loose |-> l] : e \in {<< >>, LateFirst}, l \in {<< >>, LateFirst}}

InitLoad ==
  /\ impl \in {"A", "B"}
  /\ store \in [Keys -> LoadStores]
  /\ sessions = [k \in Keys |-> NoSession]
  /\ heap = << >>
  /\ timers = << >>
  /\ ops = [o \in OpIds |-> NoOp]
  /\ queue = << >>
  /\ batch = 0
  /\ cmds = 0
  /\ ev = NoEvent
  /\ loads = [k \in Keys |-> 0]
  /\ quiet = [k \in Keys |-> FALSE]
  /\ hist = << >>

SpecLoad == InitLoad /\ [][Next]_vars

\* ---------------------------------------------- claims on the single calls

\* the step in which call o runs the body of a method of the given kind
BodyStep(o, kind) ==
  /\ queue # << >>
  /\ o = Head(queue)
  /\ ops[o].kind = kind
  /\ ops[o].pc = "body"
  /\ ops'[o].pc # "body"

\* a rate the contract allows: a finite number, at least 0.1
ValidRate(r) == r.t = "fin" /\ r.v >= MinRate

\* C11: whatever setRate is given (zero, negative, NaN, +/-Infinity, nothing)
\* the rate it stores is a finite number >= 0.1, and it is exactly 0.1 when the
\* input is not a finite number >= 0.1.
C11_RateClamped ==
  [][\A o \in OpIds :
       BodyStep(o, "setRate") =>
         /\ ValidRate(heap'[ops[o].s].rate)
         /\ heap'[ops[o].s].rate = IF ValidRate(ops[o].arg) THEN ops[o].arg ELSE Fin(MinRate)]_vars

\* gap / rate rounded down and rounded to nearest (half up), rate in tenths
QuotFloor(gap, r) == IF r.t = "fin" THEN (gap * 10) \div r.v ELSE 0
QuotRound(gap, r) == IF r.t = "fin" THEN (2 * gap * 10 + r.v) \div (2 * r.v) ELSE 0

GapAt(data, i) == TsAt(data, i + 1) - TsAt(data, i)

\* C12: while a session runs at one rate with no seek, the delay that passed
\* before the delivery of sample i+1, i having been delivered before it, is the
\* one derived from the timestamps of i and i+1 (rounded either way).
C12_RelativeTiming ==
  (ev.type = "tick" /\ ev.defined /\ ev.prev # -1 /\ ev.idx = ev.prev + 1
     /\ ~ev.rc /\ ev.rate = ev.lr /\ ValidRate(ev.rate)) =>
    ev.delay \in
      {Fin(Max(MinDelay, QuotFloor(GapAt(heap[ev.sid].data, ev.prev), ev.rate))),
       Fin(Max(MinDelay, QuotRound(GapAt(heap[ev.sid].data, ev.prev), ev.rate)))}

\* the step calls scheduleNext on session sid while it is playing: resume has
\* just set it playing, or its timer callback has just delivered a sample
Scheduled(sid) ==
  /\ sid \in DOMAIN heap
  /\ heap'[sid].playing
  /\ ~heap[sid].playing \/ (ev'.type = "tick" /\ ev'.sid = sid)

\* the handle scheduleNext has just stored in s.timer
NewTimer(sid) == CHOOSE j \in DOMAIN timers'[sid] : timers'[sid][j].cur

HasNext(s) == Has(s.data, s.idx) /\ Has(s.data, s.idx + 1)

\* a rate >= 0.1: a finite one, or +Infinity
AtLeastMinRate(r) == r.t = "inf" \/ ValidRate(r)

\* C13, as the code has it: whenever a next sample exists and the rate is
\* >= 0.1, the delay scheduled is max(10, floor((next.ts - cur.ts) / rate)).
C13_DelayFloor ==
  [][\A sid \in DOMAIN heap :
       (Scheduled(sid) /\ HasNext(heap'[sid]) /\ AtLeastMinRate(heap'[sid].rate)) =>
          timers'[sid][NewTimer(sid)].delay =
            Fin(Max(MinDelay, QuotFloor(GapAt(heap'[sid].data, heap'[sid].idx), heap'[sid].rate)))]_vars

\* a delay just scheduled by the timer callback for which floor and round differ
C13_Witness ==
  /\ ev.type = "tick"
  /\ heap[ev.sid].playing
  /\ HasNext(heap[ev.sid])
  /\ ValidRate(heap[ev.sid].rate)
  /\ QuotFloor(GapAt(heap[ev.sid].data, heap[ev.sid].idx), heap[ev.sid].rate)
       # QuotRound(GapAt(heap[ev.sid].data, heap[ev.sid].idx), heap[ev.sid].rate)
  /\ \E j \in DOMAIN timers[ev.sid] :
       timers[ev.sid][j].delay =
         Fin(Max(MinDelay, QuotFloor(GapAt(heap[ev.sid].data, heap[ev.sid].idx), heap[ev.sid].rate)))

\* C13, as stated: the delay scheduled is max(10, round((next.ts - cur.ts) / rate)).
C13_DelayRound ==
  [][\A sid \in DOMAIN heap :
       (Scheduled(sid) /\ HasNext(heap'[sid]) /\ AtLeastMinRate(heap'[sid].rate)) =>
          timers'[sid][NewTimer(sid)].delay =
            Fin(Max(MinDelay, QuotRound(GapAt(heap'[sid].data, heap'[sid].idx), heap'[sid].rate)))]_vars

\* C14: every delay scheduled while a next sample exists is a number >= 10,
\* and a delay of 0 is scheduled only when there is no next sample.
C14_DelayFloorOfTen ==
  [][\A sid \in DOMAIN heap :
       Scheduled(sid) =>
         LET d == timers'[sid][NewTimer(sid)].delay
         IN /\ Has(heap'[sid].data, heap'[sid].idx + 1) => (d.t = "fin" /\ d.v >= MinDelay)
            /\ d = Fin(0) => ~Has(heap'[sid].data, heap'[sid].idx + 1)]_vars

Sorted(data) == \A i, j \in 1..Len(data) : i <= j => data[i] <= data[j]

\* the greatest index whose timestamp does not exceed target, 0 when none
Rightmost(data, target) ==
  LET Q == {j \in 0..(Len(data) - 1) : TsAt(data, j) <= target}
  IN IF Q = {} THEN 0 ELSE CHOOSE j \in Q : \A i \in Q : i <= j

\* C15: on a non-empty session sorted by timestamp, with the cursor in range,
\* seekSeconds(delta) moves the cursor to the greatest index j with
\* ts[j] <= ts[cursor] + delta * 1000, to 0 when there is none.
C15_SeekByTime ==
  [][\A o \in OpIds :
       (BodyStep(o, "seekSeconds") /\ Len(heap[ops[o].s].data) > 0
          /\ Sorted(heap[ops[o].s].data) /\ Has(heap[ops[o].s].data, heap[ops[o].s].idx)) =>
         heap'[ops[o].s].idx =
           Rightmost(heap[ops[o].s].data,
                     TsAt(heap[ops[o].s].data, heap[ops[o].s].idx) + ops[o].arg * 1000)]_vars

\* seekSeconds has gone past the last of four samples and stands on it
C15_Witness ==
  \E o \in OpIds :
    /\ ops[o].kind = "seekSeconds"
    /\ ops[o].pc = "snap"
    /\ ops[o].arg > MaxDelta
    /\ Len(heap[ops[o].s].data) = 4
    /\ heap[ops[o].s].idx = 3

\* clamp(x, lo, hi), the lower limit winning when the range is empty
Clamp(x, lo, hi) == IF x < lo THEN lo ELSE IF x > hi THEN (IF hi < lo THEN lo ELSE hi) ELSE x

\* C16: seekPoints(delta) sets the cursor to clamp(cursor + delta, 0, len - 1):
\* 0 when the sum is below 0, len - 1 when it is at or above the length of a
\* non-empty session, the sum otherwise; the call always completes.
C16_SeekByCount ==
  [][\A o \in OpIds :
       BodyStep(o, "seekPoints") =>
         LET s == heap[ops[o].s]
             x == s.idx + ops[o].arg
         IN /\ heap'[ops[o].s].idx = Clamp(x, 0, Len(s.data) - 1)
            /\ x < 0 => heap'[ops[o].s].idx = 0
            /\ (x >= Len(s.data) /\ Len(s.data) > 0) => heap'[ops[o].s].idx = Len(s.data) - 1
            /\ ops'[o].pc = "snap"]_vars

\* seekPoints has been clamped to the last index
C16_Witness ==
  \E o \in OpIds :
    /\ ops[o].kind = "seekPoints"
    /\ ops[o].pc = "snap"
    /\ ops[o].arg > MaxDelta
    /\ Len(heap[ops[o].s].data) > 1
    /\ heap[ops[o].s].idx = Len(heap[ops[o].s].data) - 1

\* the step in which call o runs one of the two parts of a seek: the search
\* or clamp, and the snapshot it returns
SeekStep(o) ==
  \/ BodyStep(o, "seekSeconds")
  \/ BodyStep(o, "seekPoints")
  \/ queue # << >> /\ o = Head(queue) /\ ops[o].pc = "snap" /\ ops'[o].pc # "snap"

\* C17: a seek changes nothing but the cursor: playing, rate and samples of
\* every session are as before, and every pending timer is still pending with
\* the delay it was given.
C17_SeekFrame ==
  [][\A o \in OpIds :
       SeekStep(o) =>
         /\ timers' = timers
         /\ sessions' = sessions
         /\ DOMAIN heap' = DOMAIN heap
         /\ \A sid \in DOMAIN heap : heap'[sid] = [heap[sid] EXCEPT !.idx = heap'[sid].idx]]_vars

\* a seek has moved the cursor of a playing session whose timer is pending
C17_Witness ==
  \E o \in OpIds :
    /\ ops[o].kind \in {"seekSeconds", "seekPoints"}
    /\ ops[o].pc = "snap"
    /\ ops[o].arg > 0
    /\ heap[ops[o].s].playing
    /\ heap[ops[o].s].idx = 2
    /\ Len(timers[ops[o].s]) = 1

\* C18: when the store fails during the first reference to a key the call is
\* rejected, no session is registered or created and every session and timer
\* is as before; a call on a key that has no session always starts a load.
C18_StoreFailure ==
  [][\A o \in OpIds :
       /\ (ops[o].pc = "load" /\ ops'[o].pc = "idle") =>
            /\ ev'.type = "reject"
            /\ ev'.k = ops[o].k
            /\ sessions' = sessions
            /\ heap' = heap
            /\ timers' = timers
       /\ (ops[o].pc = "idle" /\ ops'[o].pc # "idle" /\ sessions[ops'[o].k] = NoSession) =>
            ops'[o].pc = "load"]_vars

\* a first reference has just failed; the key has no session and can be retried
C18_Witness == ev.type = "reject" /\ sessions[ev.k] = NoSession /\ cmds < MaxCmds

\* C19: a session built from zero samples stays at cursor 0, not playing, with
\* no timer; no tick is ever delivered from it, and its snapshot has total 0
\* and a null point.
C19_EmptySessionInert ==
  /\ \A sid \in Sids :
       Len(heap[sid].data) = 0 =>
         /\ heap[sid].idx = 0
         /\ ~heap[sid].playing
         /\ timers[sid] = << >>
         /\ SnapshotOf(heap[sid]).total = 0
         /\ SnapshotOf(heap[sid]).point = Null
  /\ ev.type \in {"tick", "throw"} => Len(heap[ev.sid].data) > 0

\* an empty session on which resume and then pause have run
C19_Witness ==
  \E sid \in Sids :
    Len(heap[sid].data) = 0 /\ heap[sid].lastOnTick = "emit" /\ hist[sid].pp >= 1

\* C20: pause leaves the session not playing, with no timer, cursor and rate
\* as they were; a pause that directly follows a pause changes nothing at all,
\* the cursor still being the one the first pause found.
C20_PauseIdempotent ==
  [][\A o \in OpIds :
       BodyStep(o, "pause") =>
         /\ ~heap'[ops[o].s].playing
         /\ timers'[ops[o].s] = << >>
         /\ heap'[ops[o].s].idx = heap[ops[o].s].idx
         /\ heap'[ops[o].s].rate = heap[ops[o].s].rate
         /\ hist[ops[o].s].pp >= 1 =>
              /\ heap'[ops[o].s] = heap[ops[o].s]
              /\ timers'[ops[o].s] = timers[ops[o].s]
              /\ heap[ops[o].s].idx = hist[ops[o].s].pz]_vars

\* two pauses in a row on a session that had been running
C20_Witness == \E sid \in Sids : hist[sid].pp = 2 /\ hist[sid].last # -1

\* every session object but for the named field is as before the step
SameBut(field) ==
  /\ DOMAIN heap' = DOMAIN heap
  /\ \A sid \in DOMAIN heap :
       CASE field = "lastOnTick" ->
              heap'[sid] = [heap[sid] EXCEPT !.lastOnTick = heap'[sid].lastOnTick]
         [] OTHER -> heap'[sid] = heap[sid]

\* C21: resume on a session that is playing schedules nothing and leaves
\* cursor, rate, playing, samples and every pending timer with its delay as
\* they were (revision A only notes the callback it was given).
C21_ResumeWhileRunning ==
  [][\A o \in OpIds :
       (BodyStep(o, "resume") /\ heap[ops[o].s].playing) =>
         /\ timers' = timers
         /\ sessions' = sessions
         /\ SameBut("lastOnTick")]_vars

\* resume has just returned from a playing session that holds its one timer
C21_Witness ==
  ev.type = "resumeNoop" /\ heap[ev.sid].playing /\ Len(timers[ev.sid]) = 1

\* the step in which the gateway invokes call o
InvokeStep(o) == ops[o].pc = "idle" /\ ops'[o].pc # "idle"

\* C22: snapshot on a key that has a session starts no store load, and the
\* read changes no session, no timer and no registration.
C22_SnapshotPure ==
  [][\A o \in OpIds :
       /\ (InvokeStep(o) /\ ops'[o].kind = "snapshot" /\ sessions[ops'[o].k] # NoSession) =>
            /\ ops'[o].pc = "body"
            /\ heap' = heap /\ timers' = timers /\ sessions' = sessions /\ loads' = loads
       /\ BodyStep(o, "snapshot") =>
            heap' = heap /\ timers' = timers /\ sessions' = sessions /\ loads' = loads]_vars

\* snapshot has just read a playing session whose timer is pending
C22_Witness ==
  /\ ev.type = "snapshot"
  /\ heap[ev.sid].playing
  /\ Len(timers[ev.sid]) = 1
  /\ loads[ev.k] = 1

\* C23: snapshot returns idx = cursor, total = number of samples, playing and
\* rate as they are, and the sample at the cursor; the point is null only when
\* the session has no samples.
C23_SnapshotContent ==
  ev.type = "snapshot" =>
    LET s == heap[ev.sid]
    IN /\ ev.snap.idx = s.idx
       /\ ev.snap.total = Len(s.data)
       /\ ev.snap.playing = s.playing
       /\ ev.snap.rate = s.rate
       /\ ev.snap.point = Null => Len(s.data) = 0
       /\ ev.snap.point # Null => ev.snap.point = Fin(TsAt(s.data, s.idx))

\* C24: ensureSession creates a session with cursor 0, not playing, rate 1 and
\* no timer, leaving the other sessions alone; a call on a key that has a
\* registered session gets that session, and the lookup changes nothing.
C24_SessionCreation ==
  [][\A o \in OpIds :
       /\ (ops[o].pc = "ensure2" /\ ops'[o].pc = "body") =>
            /\ Len(heap') = Len(heap) + 1
            /\ ops'[o].s = Len(heap')
            /\ sessions'[ops[o].k] = Len(heap')
            /\ heap'[Len(heap')].idx = 0
            /\ ~heap'[Len(heap')].playing
            /\ heap'[Len(heap')].rate = Fin(DefaultRate)
            /\ timers'[Len(heap')] = << >>
            /\ \A sid \in DOMAIN heap : heap'[sid] = heap[sid] /\ timers'[sid] = timers[sid]
       /\ (InvokeStep(o) /\ sessions[ops'[o].k] # NoSession) =>
            /\ ops'[o].s = sessions[ops'[o].k]
            /\ ops'[o].pc = "body"
            /\ heap' = heap /\ timers' = timers /\ sessions' = sessions]_vars

\* a call is about to run on the registered session, which has already played
C24_Witness ==
  \E o \in OpIds :
    /\ ops[o].pc = "body"
    /\ ops[o].s = sessions[ops[o].k]
    /\ hist[ops[o].s].last # -1

\* C25: the samples revision A hands to a session are in non-decreasing
\* timestamp order, whichever of its two queries found the rows.
C25_SortedSamples == impl = "A" => \A sid \in Sids : Sorted(heap[sid].data)

\* clamp(r) of the contract: r when it is a finite number >= 0.1, else 0.1
SpecClampRate(r) == IF ValidRate(r) THEN r ELSE Fin(MinRate)

\* C26: setRate(r) on a playing session delivers nothing and keeps the cursor;
\* it ends with the session playing and one timer pending, whose delay is
\* max(10, (ts[cursor+1] - ts[cursor]) / clamp(r)) (rounded either way).
C26_RateChangeNotRetroactive ==
  [][\A o \in OpIds :
       (queue # << >> /\ o = Head(queue) /\ ops[o].kind = "setRate"
          /\ ops[o].pc \in {"body", "sr_pause", "sr_mid", "sr_resume"}
          /\ ops'[o].pc # ops[o].pc) =>
         /\ heap'[ops[o].s].idx = heap[ops[o].s].idx
         /\ ev'.type # "tick"
         /\ (ops[o].pc = "body" /\ heap[ops[o].s].playing) => ops'[o].pc = "sr_pause"
         /\ ops[o].pc = "sr_mid" => ops'[o].pc = "sr_resume"
         /\ ops'[o].pc = "sr_ret" =>
              /\ heap'[ops[o].s].playing
              /\ Len(timers'[ops[o].s]) = 1
              /\ HasNext(heap'[ops[o].s]) =>
                   timers'[ops[o].s][1].delay \in
                     {Fin(Max(MinDelay, QuotFloor(GapAt(heap'[ops[o].s].data, heap'[ops[o].s].idx),
                                                  SpecClampRate(ops[o].arg)))),
                      Fin(Max(MinDelay, QuotRound(GapAt(heap'[ops[o].s].data, heap'[ops[o].s].idx),
                                                  SpecClampRate(ops[o].arg))))}]_vars

\* C27: on a non-empty session whose cursor indexes no sample, seekSeconds(delta)
\* moves the cursor to the greatest index j with ts[j] <= ts[0] + delta * 1000,
\* to 0 when there is none, and so back into [0, len - 1].
C27_SeekFromOutOfBounds ==
  [][\A o \in OpIds :
       (BodyStep(o, "seekSeconds") /\ Len(heap[ops[o].s].data) > 0
          /\ ~Has(heap[ops[o].s].data, heap[ops[o].s].idx)) =>
         /\ heap'[ops[o].s].idx =
              Rightmost(heap[ops[o].s].data, TsAt(heap[ops[o].s].data, 0) + ops[o].arg * 1000)
         /\ Has(heap'[ops[o].s].data, heap'[ops[o].s].idx)]_vars

\* C28: a session object registered for a key is never replaced by another
\* session object for that key, also when two operations first reference the
\* key concurrently.
C28_RegistryStable ==
  [][\A k \in Keys : sessions[k] # NoSession => sessions'[k] = sessions[k]]_vars

\* C29: every value passed to the tick callback is a sample of the session,
\* samples[i] with 0 <= i < len, never undefined.
C29_TickIsSample ==
  ev.type = "tick" => (ev.defined /\ ev.idx >= 0 /\ ev.idx < Len(heap[ev.sid].data))

\* C30: a timer that was pending when a seek ran delivers, when it fires, the
\* sample at the post-seek cursor, with the delay computed before the seek, and
\* playback continues from the post-seek cursor: the cursor moves one past it
\* and, unless that is the end, the session plays on with one timer pending.
C30_SeekWhileRunning ==
  (ev.type = "tick" /\ ev.sk # -1) =>
    /\ ev.idx = ev.sk
    /\ ev.defined
    /\ ev.delay = ev.sd
    /\ heap[ev.sid].idx = ev.sk + 1
    /\ IF AtEnd(heap[ev.sid])
         THEN ~heap[ev.sid].playing /\ Len(timers[ev.sid]) = 0
         ELSE /\ heap[ev.sid].playing
              /\ Len(timers[ev.sid]) = 1
              /\ timers[ev.sid][1].delay = Delay(heap[ev.sid])

\* a tick after a seek whose delay is not the one the post-seek cursor gives,
\* with playback going on afterwards
C30_Witness ==
  /\ ev.type = "tick"
  /\ ev.sk # -1
  /\ ev.delay # Delay([heap[ev.sid] EXCEPT !.idx = ev.sk])
  /\ heap[ev.sid].playing

\* the timestamp under the cursor does not occur again after the cursor
NoLaterDuplicate(s) ==
  \A j \in 0..(Len(s.data) - 1) : j > s.idx => TsAt(s.data, j) # TsAt(s.data, s.idx)

\* C35: on a non-empty session sorted by timestamp, with the cursor in range,
\* seekSeconds(delta) with delta >= 0 never moves the cursor back, and with
\* delta <= 0 never moves it forward provided the timestamp under the cursor
\* does not occur again after it.
C35_SeekFollowsSign ==
  [][\A o \in OpIds :
       (BodyStep(o, "seekSeconds") /\ Len(heap[ops[o].s].data) > 0
          /\ Sorted(heap[ops[o].s].data) /\ Has(heap[ops[o].s].data, heap[ops[o].s].idx)) =>
         /\ ops[o].arg >= 0 => heap'[ops[o].s].idx >= heap[ops[o].s].idx
         /\ (ops[o].arg <= 0 /\ NoLaterDuplicate(heap[ops[o].s])) =>
              heap'[ops[o].s].idx <= heap[ops[o].s].idx]_vars

\* a backward seek on four sorted samples has stopped between the ends
C35_Witness ==
  \E o \in OpIds :
    /\ ops[o].kind = "seekSeconds"
    /\ ops[o].pc = "snap"
    /\ ops[o].arg < 0
    /\ ops[o].arg >= -MaxDelta
    /\ Sorted(heap[ops[o].s].data)
    /\ Len(heap[ops[o].s].data) = 4
    /\ heap[ops[o].s].idx \in {1, 2}

\* C36: on a non-empty session sorted by timestamp, samples sharing a timestamp
\* included, with the cursor in range, seekSeconds(0) leaves the cursor where
\* it was.
C36_SeekZeroIdentity ==
  [][\A o \in OpIds :
       (BodyStep(o, "seekSeconds") /\ ops[o].arg = 0 /\ Len(heap[ops[o].s].data) > 0
          /\ Sorted(heap[ops[o].s].data) /\ Has(heap[ops[o].s].data, heap[ops[o].s].idx)) =>
         heap'[ops[o].s].idx = heap[ops[o].s].idx]_vars

\* the step in which setRate call o leaves the given position
SetRateStep(o, pc) ==
  /\ queue # << >>
  /\ o = Head(queue)
  /\ ops[o].kind = "setRate"
  /\ ops[o].pc = pc
  /\ ops'[o].pc # pc

\* C32: in revision A, setRate on a playing session goes on to call resume
\* with the callback a resume call stored in lastOnTick; after that resume the
\* session is playing with a timer that holds a callback given to resume, and
\* every sample delivered goes to a callback a resume call supplied.
C32_RearmWithLastOnTick ==
  [][impl = "A" =>
       /\ ev'.type = "tick" => ev'.cb = "emit"
       /\ \A o \in OpIds :
            /\ SetRateStep(o, "sr_mid") =>
                 /\ ops'[o].pc = "sr_resume"
                 /\ ops'[o].cb = heap[ops[o].s].lastOnTick
                 /\ ops'[o].cb = "emit"
            /\ SetRateStep(o, "sr_resume") =>
                 /\ heap'[ops[o].s2].playing
                 /\ heap'[ops[o].s].playing
                 /\ Len(timers'[ops[o].s2]) >= 1
                 /\ \A j \in DOMAIN timers'[ops[o].s2] : timers'[ops[o].s2][j].cb = "emit"]_vars

\* revision A: a sample delivered by the timer setRate re-armed
C32_Witness == impl = "A" /\ ev.type = "tick" /\ ev.rc /\ ev.cb = "emit" /\ ev.defined

\* C33: in revision B, the samples delivered after setRate on a playing session
\* go to the tick callback given to the resume that started playback.
C33_RateChangeKeepsCallback ==
  (impl = "B" /\ ev.type = "tick") => ev.cb = "emit"

\* C39: setRate on a session that is not playing changes the rate and nothing
\* else: the call ends there, the session stays not playing with its cursor,
\* no timer is set and nothing is delivered.
C39_SetRateIdle ==
  [][\A o \in OpIds :
       (BodyStep(o, "setRate") /\ ~heap[ops[o].s].playing) =>
         /\ ops'[o].pc = "idle"
         /\ timers' = timers
         /\ sessions' = sessions
         /\ DOMAIN heap' = DOMAIN heap
         /\ \A sid \in DOMAIN heap : heap'[sid] = [heap[sid] EXCEPT !.rate = heap'[sid].rate]
         /\ \A sid \in DOMAIN heap : sid # ops[o].s => heap'[sid] = heap[sid]
         /\ heap'[ops[o].s].rate = ClampRate(ops[o].arg)
         /\ ev'.type # "tick"]_vars

\* revision A: a session no resume has touched holds a changed rate
C39_Witness ==
  /\ impl = "A"
  /\ cmds < MaxCmds
  /\ \E sid \in Sids :
       /\ sessions[heap[sid].key] = sid
       /\ heap[sid].lastOnTick = "undefined"
       /\ heap[sid].rate # Fin(DefaultRate)
       /\ Len(heap[sid].data) > 0
       /\ ~heap[sid].playing
       /\ timers[sid] = << >>

\* ------------------------------------------------- playback left to itself
\* A session that is not playing, with its cursor on a sample, and a resume
\* call about to run; afterwards only the timers act.  The microtask queue is
\* always drained and a pending timer always fires.
InitPlay ==
  /\ InitUnit
  /\ ops[1].kind = "resume"
  /\ ~heap[1].playing
  /\ Has(heap[1].data, heap[1].idx)

NextPlay ==
  \/ \E o \in OpIds : Resume(o)
  \/ \E sid \in DOMAIN heap : \E i \in DOMAIN timers[sid] : TimerFire(sid, i)

SpecPlay ==
  /\ InitPlay
  /\ [][NextPlay]_vars
  /\ WF_vars(\E o \in OpIds : Resume(o))
  /\ WF_vars(\E sid \in DOMAIN heap : \E i \in DOMAIN timers[sid] : TimerFire(sid, i))

\* the cursors a prepared session can have on a sample
PlayCursors == UNION {0..(Len(d) - 1) : d \in UnitData}

\* C31: after resume on a non-empty session whose cursor is on a sample, with
\* no further call, the session comes to rest not playing and with no timer,
\* having delivered the samples from the cursor at resume to the last one,
\* each once and in order.
C31_PlaybackTerminates ==
  /\ \A c \in PlayCursors :
       (ops[1].pc = "body" /\ heap[1].idx = c) ~>
          [](/\ ~heap[1].playing
             /\ timers[1] = << >>
             /\ heap[1].idx = Len(heap[1].data)
             /\ hist[1].last = Len(heap[1].data) - 1
             /\ hist[1].n = Len(heap[1].data) - c)
  /\ [](ev.type = "tick" =>
          /\ ev.defined
          /\ ev.cb = "emit"
          /\ ev.rs # -1 \/ ev.prev # -1
          /\ ev.rs # -1 => ev.idx = ev.rs
          /\ ev.prev # -1 => ev.idx = ev.prev + 1)

\* playback has come to rest after three or more deliveries
C31_Witness ==
  /\ ev.type = "tick"
  /\ ~heap[1].playing
  /\ timers[1] = << >>
  /\ hist[1].n >= 3
  /\ hist[1].last = Len(heap[1].data) - 1

\* ------------------------------------------------------ two flights at once
\* The service holding two flight/date keys: flight 2 has a session in any
\* state the engine leaves sessions in, flight 1 has one too or has not been
\* referenced yet, and one call of any kind for either flight is about to run
\* while the timers of both go on firing.
TwoKeys == {1, 2}

\* the session objects flight k can have
KeySessions(im, k, data) ==
  {[key |-> k, data |-> data, idx |-> i, playing |-> p, rate |-> Fin(DefaultRate),
    lastOnTick |-> IF im = "A" /\ p THEN "emit" ELSE "undefined"] :
     i \in 0..Len(data), p \in {q \in BOOLEAN : q => Len(data) > 0}}

\* flight 2 alone, or flight 2 and flight 1
KeyHeaps(im, st) ==
  {<<s2>> : s2 \in KeySessions(im, 2, LoadFlight(im, st[2]))}
    \cup {<<s2, s1>> : s2 \in KeySessions(im, 2, LoadFlight(im, st[2])),
                       s1 \in KeySessions(im, 1, LoadFlight(im, st[1]))}

KeyCalls ==
  UNION {{[kind |-> kind, k |-> k, arg |-> a,
           cb |-> IF kind = "resume" THEN "emit" ELSE "none",
           pc |-> "idle", s |-> 0, s2 |-> 0, hr |-> FALSE] :
            a \in ArgsOf(kind), k \in TwoKeys} : kind \in Kinds}

InitKeys ==
  /\ impl \in {"A", "B"}
  /\ store \in [TwoKeys -> {Stored(d) : d \in DataSets}]
  /\ heap \in KeyHeaps(impl, store)
  /\ sessions = [k \in TwoKeys |-> IF k = 2 THEN 1 ELSE IF Len(heap) = 2 THEN 2 ELSE NoSession]
  /\ timers = [sid \in DOMAIN heap |-> ScheduleNext(heap[sid], << >>, "emit")]
  /\ \E c \in KeyCalls :
       /\ ops = [o \in OpIds |-> IF o = 1 THEN EnsureSessionCall(c.kind, c.k, c.arg) ELSE NoOp]
       /\ queue = IF sessions[c.k] # NoSession THEN <<1>> ELSE << >>
  /\ batch = 0
  /\ cmds = 1
  /\ ev = NoEvent
  /\ loads = [k \in TwoKeys |-> IF sessions[k] # NoSession THEN 1 ELSE 0]
  /\ quiet = [k \in TwoKeys |-> FALSE]
  /\ hist = [sid \in DOMAIN heap |-> NoHist]

NextKeys ==
  \/ \E o \in OpIds : LoadDone(o)
  \/ \E o \in OpIds : LoadFail(o)
  \/ \E o \in OpIds : EnsureSessionCont(o)
  \/ \E o \in OpIds : Snapshot(o)
  \/ \E o \in OpIds : Resume(o)
  \/ \E o \in OpIds : Pause(o)
  \/ \E o \in OpIds : SetRate(o)
  \/ \E o \in OpIds : SetRatePause(o)
  \/ \E o \in OpIds : SetRateMid(o)
  \/ \E o \in OpIds : SetRateResume(o)
  \/ \E o \in OpIds : SetRateRet(o)
  \/ \E o \in OpIds : SeekSeconds(o)
  \/ \E o \in OpIds : SeekPoints(o)
  \/ \E o \in OpIds : SeekSnapshot(o)
  \/ \E sid \in DOMAIN heap : \E i \in DOMAIN timers[sid] : TimerFire(sid, i)

SpecKeys == InitKeys /\ [][NextKeys]_vars

\* the step runs a part of a call for key b
CallStepFor(b) ==
  /\ queue # << >>
  /\ ops[Head(queue)].k = b
  /\ ops'[Head(queue)] # ops[Head(queue)]
  /\ \A o \in OpIds : (o # Head(queue) /\ ops'[o] # ops[o]) => ops[o].pc = "idle"

\* the step is the store's answer to a call for key b
LoadStepFor(b) ==
  \E o \in OpIds :
    /\ ops[o].pc = "load"
    /\ ops[o].k = b
    /\ ops'[o].pc # "load"

\* (a timer step starts no continuation; the session it belongs to is the one
\* whose cursor or timers it changes)
TimerStepFor(b) ==
  /\ ops' = ops
  /\ queue = << >>
  /\ \E sid \in DOMAIN heap :
       heap[sid].key = b /\ (heap'[sid] # heap[sid] \/ timers'[sid] # timers[sid])
  /\ \A sid \in DOMAIN heap :
       (heap'[sid] # heap[sid] \/ timers'[sid] # timers[sid]) => heap[sid].key = b

\* the step is a part of a call for key b, or the firing of a timer of a
\* session of key b
ActsFor(b) == CallStepFor(b) \/ LoadStepFor(b) \/ TimerStepFor(b)

\* C37: every call works on a session of its own key, and whenever a step
\* changes a session of key b (cursor, playing, rate, timers), registers or
\* creates one, or delivers a tick of key b, that step is a part of a call
\* for b or the firing of a timer of b.
C37_KeyIsolation ==
  /\ [](/\ \A o \in OpIds :
             /\ ops[o].s # 0 => heap[ops[o].s].key = ops[o].k
             /\ ops[o].s2 # 0 => heap[ops[o].s2].key = ops[o].k
        /\ \A k \in TwoKeys : sessions[k] # NoSession => heap[sessions[k]].key = k)
  /\ [][/\ \A sid \in DOMAIN heap :
             (heap'[sid] # heap[sid] \/ timers'[sid] # timers[sid]) => ActsFor(heap[sid].key)
        /\ \A sid \in DOMAIN heap' : sid \notin DOMAIN heap => ActsFor(heap'[sid].key)
        /\ \A k \in TwoKeys : sessions'[k] # sessions[k] => ActsFor(k)
        /\ ev'.type = "tick" => (TimerStepFor(ev'.k) /\ heap[ev'.sid].key = ev'.k)]_vars

\* a tick of one flight while the session of the other flight is playing
C37_Witness ==
  /\ ev.type = "tick"
  /\ \E sid \in Sids :
       /\ heap[sid].key # ev.k
       /\ heap[sid].playing
       /\ Len(timers[sid]) = 1

\* ------------------------------------------------- the gateway and a viewer
\* The socket handlers of PilotGateway, whole: each calls the service and then
\* emits, and join awaits the room and the path query before its snapshot.
\* One or two messages of any kind are on their way to the server; the key has a session
\* in any state the engine leaves sessions in, or none yet.  A viewer whose
\* join is answered by a snapshot with idx > 0 sends player:seekPoints with
\* points = -idx and then join again (page.tsx), once.

\* which handler asked for a snapshot
FromJoin == 0
FromRejoin == 1
FromResume == 2
FromPause == 3

HandlerOf(tag) ==
  CASE tag = FromRejoin -> "rejoin"
    [] tag = FromResume -> "resume"
    [] tag = FromPause -> "pause"
    [] OTHER -> "join"

GwKinds == {"join", "resume", "pause", "setRate", "seekSeconds", "seekPoints"}

\* a socket message on its way to the server
Sent(kind, k, arg) ==
  [kind |-> kind, k |-> k, arg |-> arg,
   cb |-> IF kind = "resume" THEN "emit" ELSE "none",
   pc |-> "sent", s |-> 0, s2 |-> 0, hr |-> FALSE]

GwMessages ==
  UNION {{Sent(kind, UnitKey, a) : a \in IF kind = "join" THEN {FromJoin} ELSE ArgsOf(kind)} :
         kind \in GwKinds}

InitGateway ==
  /\ impl \in {"A", "B"}
  /\ store \in [Keys -> {Stored(d) : d \in DataSets}]
  /\ heap \in {<< >>} \cup {<<s>> : s \in KeySessions(impl, UnitKey, LoadFlight(impl, store[UnitKey]))}
  /\ sessions = [k \in Keys |-> IF Len(heap) = 1 THEN 1 ELSE NoSession]
  /\ timers = [sid \in DOMAIN heap |-> ScheduleNext(heap[sid], << >>, "emit")]
  /\ ops \in {[o \in OpIds |-> IF o = 1 THEN m ELSE IF o = 2 THEN n ELSE NoOp] :
                m \in GwMessages, n \in GwMessages \cup {NoOp}}
  /\ queue = << >>
  /\ batch = 0
  /\ cmds = 1
  /\ ev = NoEvent
  /\ loads = [k \in Keys |-> IF Len(heap) = 1 THEN 1 ELSE 0]
  /\ quiet = [k \in Keys |-> FALSE]
  /\ hist = [sid \in DOMAIN heap |-> NoHist]

\* the server reads a message and starts its handler; messages of one socket
\* are handled in the order sent
GwReceive(o) ==
  /\ ops[o].pc = "sent"
  /\ \A x \in OpIds : x < o => ops[x].pc # "sent"
  /\ batch < MaxBatch
  /\ batch > 0 \/ queue = << >>
  /\ IF ops[o].kind = "join"
       THEN /\ ops' = [ops EXCEPT ![o].pc = "room"]
            /\ queue' = Append(queue, o)
       ELSE /\ ops' = [ops EXCEPT ![o] = EnsureSessionCall(ops[o].kind, ops[o].k, ops[o].arg)]
            /\ queue' = IF sessions[ops[o].k] # NoSession THEN Append(queue, o) ELSE queue
  /\ batch' = batch + 1
  /\ quiet' = IF ops[o].kind = "resume" THEN [quiet EXCEPT ![ops[o].k] = FALSE] ELSE quiet
  /\ ev' = NoEvent
  /\ UNCHANGED <<impl, cmds, store, sessions, heap, timers, loads, hist>>

\* join after `await client.join(room)`: the path query goes to the store
JoinRoom(o) ==
  /\ Ready(o, "room", {"join"})
  /\ ops' = [ops EXCEPT ![o].pc = "path"]
  /\ queue' = Tail(queue)
  /\ batch' = 0
  /\ ev' = NoEvent
  /\ UNCHANGED <<impl, cmds, store, sessions, heap, timers, loads, quiet, hist>>

\* faulty variant: the snapshot is asked for only after a store round trip
GatewaySnapshotCallDeferred(k, tag) ==
  [EnsureSessionCall("snapshot", k, tag) EXCEPT !.pc = "load"]

\* `await this.pilot.snapshot(key)` in a handler
GatewaySnapshotCall(k, tag) == EnsureSessionCall("snapshot", k, tag)

\* the handler of call o goes on to ask for the snapshot it emits
ThenSnapshot(o, tag, rest) ==
  /\ ops' = [ops EXCEPT ![o] = GatewaySnapshotCall(ops[o].k, tag)]
  /\ queue' = IF ops'[o].pc = "body" THEN Append(rest, o) ELSE rest

\* the path query answers: telemetry:path is emitted, the snapshot asked for
PathDone(o) ==
  /\ queue = << >>
  /\ ops[o].pc = "path"
  /\ ThenSnapshot(o, ops[o].arg, << >>)
  /\ batch' = 0
  /\ ev' = NoEvent
  /\ UNCHANGED <<impl, cmds, store, sessions, heap, timers, loads, quiet, hist>>

\* the path query fails: the handler rejects
PathFail(o) ==
  /\ queue = << >>
  /\ ops[o].pc = "path"
  /\ ops' = [ops EXCEPT ![o] = NoOp]
  /\ batch' = 0
  /\ ev' = RejectEvent(ops[o].k)
  /\ UNCHANGED <<impl, cmds, store, sessions, heap, timers, queue, loads, quiet, hist>>

\* player:resume: `await this.pilot.resume(key, emit)`, then the snapshot
GwResume(o) ==
  /\ Ready(o, "body", {"resume"})
  /\ ResumeOn(ops[o].s, ops[o].cb, FALSE)
  /\ ThenSnapshot(o, FromResume, Tail(queue))
  /\ batch' = 0
  /\ ev' = ResumeNoopEvent(ops[o].s)
  /\ UNCHANGED <<impl, cmds, store, sessions, loads, quiet>>

\* player:pause: `await this.pilot.pause(key)`, then the snapshot
GwPause(o) ==
  /\ Ready(o, "body", {"pause"})
  /\ PauseOn(ops[o].s)
  /\ hist' = [hist EXCEPT ![ops[o].s].run = FALSE, ![ops[o].s].pz = heap[ops[o].s].idx,
                          ![ops[o].s].rc = FALSE, ![ops[o].s].rs = -1,
                          ![ops[o].s].pp = Min(2, @ + 1),
                          ![ops[o].s].sk = -1, ![ops[o].s].sd = Fin(0)]
  /\ quiet' = [quiet EXCEPT ![ops[o].k] = ~ops[o].hr]
  /\ ThenSnapshot(o, FromPause, Tail(queue))
  /\ batch' = 0
  /\ ev' = NoEvent
  /\ UNCHANGED <<impl, cmds, store, sessions, loads>>

\* emit('telemetry:snapshot', ...): the event's cb names the handler emitting
GwSnapshot(o) ==
  /\ Ready(o, "body", {"snapshot"})
  /\ Finish(o)
  /\ batch' = 0
  /\ ev' = [SnapshotEvent(ops[o].s) EXCEPT !.cb = HandlerOf(ops[o].arg)]
  /\ UNCHANGED <<impl, cmds, store, sessions, heap, timers, loads, quiet, hist>>

\* the viewer's telemetry:snapshot handler, the answer to its join reporting
\* idx > 0: emit player:seekPoints { points: -ns.idx }, then join
ViewerReset ==
  /\ ev.type = "snapshot"
  /\ ev.cb = "join"
  /\ ev.snap.idx > 0
  /\ \A o \in OpIds : ops[o].pc = "idle"
  /\ ops' = [o \in OpIds |->
               IF o = 1 THEN Sent("seekPoints", ev.k, -ev.snap.idx)
               ELSE IF o = 2 THEN Sent("join", ev.k, FromRejoin)
               ELSE NoOp]
  /\ cmds' = cmds + 2
  /\ batch' = 0
  /\ ev' = NoEvent
  /\ UNCHANGED <<impl, store, sessions, heap, timers, queue, loads, quiet, hist>>

NextGateway ==
  \/ \E o \in OpIds : GwReceive(o)
  \/ \E o \in OpIds : JoinRoom(o)
  \/ \E o \in OpIds : PathDone(o)
  \/ \E o \in OpIds : PathFail(o)
  \/ \E o \in OpIds : LoadDone(o)
  \/ \E o \in OpIds : LoadFail(o)
  \/ \E o \in OpIds : EnsureSessionCont(o)
  \/ \E o \in OpIds : GwSnapshot(o)
  \/ \E o \in OpIds : GwResume(o)
  \/ \E o \in OpIds : GwPause(o)
  \/ \E o \in OpIds : SetRate(o)
  \/ \E o \in OpIds : SetRatePause(o)
  \/ \E o \in OpIds : SetRateMid(o)
  \/ \E o \in OpIds : SetRateResume(o)
  \/ \E o \in OpIds : SetRateRet(o)
  \/ \E o \in OpIds : SeekSeconds(o)
  \/ \E o \in OpIds : SeekPoints(o)
  \/ \E o \in OpIds : SeekSnapshot(o)
  \/ \E sid \in DOMAIN heap : \E i \in DOMAIN timers[sid] : TimerFire(sid, i)
  \/ ViewerReset

SpecGateway == InitGateway /\ [][NextGateway]_vars

\* call o is a resume handler that has called resume and not yet emitted
AwaitsResumeSnapshot(o) ==
  ops[o].kind = "snapshot" /\ ops[o].arg = FromResume /\ ops[o].pc # "idle"

\* C38: between the resume a player:resume handler makes and the snapshot it
\* emits no tick is delivered, whatever the delay of the timer, and the handler
\* gets to its snapshot without a store query, also when its resume was the
\* first reference to the key; when that resume set the session playing and
\* no pause or seek came after it, the snapshot reports playing = true and the
\* cursor the resume found, nothing having been delivered yet.
C38_SnapshotBeforeTick ==
  [][/\ \A o \in OpIds :
          /\ AwaitsResumeSnapshot(o) => ev'.type # "tick"
          /\ BodyStep(o, "resume") => (AwaitsResumeSnapshot(o)' /\ ops'[o].pc = "body")
     /\ (ev'.type = "snapshot" /\ ev'.cb = "resume" /\ hist[ev'.sid].rs # -1) =>
          /\ ev'.snap.playing
          /\ ev'.snap.idx = hist[ev'.sid].rs
          /\ hist[ev'.sid].n = 0
          /\ Len(timers[ev'.sid]) >= 1]_vars

\* the snapshot of a resume that set a timer of delay 0
C38_Witness ==
  /\ ev.type = "snapshot"
  /\ ev.cb = "resume"
  /\ ev.snap.playing
  /\ hist[ev.sid].rs # -1
  /\ hist[ev.sid].n = 0
  /\ Len(timers[ev.sid]) = 1
  /\ timers[ev.sid][1].delay = Fin(0)

\* C34: the snapshot that answers the join a viewer sends after
\* player:seekPoints { points: -idx } reports idx = 0, and the cursor of the
\* session is 0 then.
C34_ResetToStart ==
  (ev.type = "snapshot" /\ ev.cb = "rejoin") => (ev.snap.idx = 0 /\ heap[ev.sid].idx = 0)

====
